---- MODULE Spec2Model ----
(***************************************************************************)
(* A model of domoticz-hue-emulator.py: the device registry, the Domoticz  *)
(* controller (hub adapter) with its lazily established session, and the   *)
(* HTTP handler that serves the Hue API on a single-threaded HTTPServer.   *)
(*                                                                         *)
(* Python values are encoded as follows.  None is the empty tuple and a    *)
(* value v that may be None is <<v>>.  A JSON object body is a record of   *)
(* the five Hue fields, each None (absent) or <<value>>.  Result entries   *)
(* and hub requests are tuples whose first component names their kind.     *)
(***************************************************************************)
EXTENDS Integers, Sequences, FiniteSets, TLC

\* ------------------------------------------------------------------ bounds
MaxDevices == 1
MaxScenes == 1
NumConns == 2
LoginCap == 2
MaxLines == 2       \* lines of a datagram
MaxDatagrams == 2   \* datagrams the discovery socket receives

\* ------------------------------------------------------- program constants
MiredMin == 153
MiredMax == 500
HueMax == 65535
BriMax == 254

None == <<>>
Some(v) == <<v>>

\* Python's int() of a quotient of non-negative or negative integers:
\* truncation toward zero.
int_div(a, b) == IF a >= 0 THEN a \div b ELSE -((-a) \div b)

\* str(light_id) for the ids the registry can hold.
IdStrings == <<"1", "2", "3", "4", "5", "6", "7", "8">>
str(n) == IdStrings[n]

\* ---------------------------------------------------------------- registry
\* Capability types a device entry may declare; None is an entry without
\* a 'type' key.
DeclTypes == {None, Some("switch"), Some("dimmer"), Some("rgb"), Some("scene")}

DeviceEntry(k, t) == [idx |-> 10 + k, type |-> t]
SceneEntry(k) == [idx |-> k]

DeviceLists ==
    UNION {{[k \in 1..m |-> DeviceEntry(k, f[k])] : f \in [1..m -> DeclTypes]}
           : m \in 0..MaxDevices}
SceneLists == {[k \in 1..n |-> SceneEntry(k)] : n \in 0..MaxScenes}
Configs == {[devices |-> d, scenes |-> s] : d \in DeviceLists, s \in SceneLists}

\* One pass of a 'for ... in config.get(...)' loop of build_devices_dict.
RECURSIVE add_entries(_, _, _, _)
add_entries(devices, light_id, entries, is_scene) ==
    IF entries = <<>> THEN devices
    ELSE LET e == Head(entries)
             d == [idx |-> e.idx,
                   type |-> IF is_scene THEN "scene"
                            ELSE IF e.type = None THEN "switch" ELSE e.type[1],
                   is_scene |-> is_scene]
         IN add_entries(devices @@ (str(light_id) :> d), light_id + 1,
                        Tail(entries), is_scene)

\* A variant that numbers the scenes before the devices.
build_devices_dict_scenes_first(config) ==
    add_entries(add_entries(<<>>, 1, config.scenes, TRUE),
                Len(config.scenes) + 1, config.devices, FALSE)

build_devices_dict(config) ==
    LET withDevices == add_entries(<<>>, 1, config.devices, FALSE)
    IN add_entries(withDevices, 1 + Len(config.devices), config.scenes, TRUE)

\* ------------------------------------------------------------ request data
\* What json.loads makes of a request body.  "object" is a JSON object of
\* Hue fields, "malformed" is text that is not JSON (JSONDecodeError),
\* "undecodable" is a body json.loads rejects with another exception
\* (bytes that are not UTF-8: UnicodeDecodeError; nesting too deep:
\* RecursionError), "scalar" is a JSON number, boolean or null and "array"
\* is the JSON value [].
NoFields == [on |-> None, hue |-> None, sat |-> None, bri |-> None, ct |-> None]
Body(kind, f) ==
    [kind |-> kind, on |-> f.on, hue |-> f.hue, sat |-> f.sat, bri |-> f.bri, ct |-> f.ct]
ObjectBodies(ons, hues, sats, bris, cts) ==
    {Body("object", [on |-> o, hue |-> h, sat |-> s, bri |-> b, ct |-> t]) :
        o \in ons, h \in hues, s \in sats, b \in bris, t \in cts}
OtherBodies == {Body(k, NoFields) : k \in {"malformed", "undecodable", "scalar", "array"}}
NoBody == Body("none", NoFields)

\* Parsed data: a dict of the fields, the list [] or a scalar.
Data(t, f) == [t |-> t, on |-> f.on, hue |-> f.hue, sat |-> f.sat, bri |-> f.bri, ct |-> f.ct]
EmptyDict == Data("dict", NoFields)

json_loads(body) ==
    CASE body.kind = "object" -> [exc |-> "", value |-> Data("dict", body)]
      [] body.kind \in {"malformed", "none"} -> [exc |-> "JSONDecodeError", value |-> EmptyDict]
      [] body.kind = "scalar" -> [exc |-> "", value |-> Data("scalar", NoFields)]
      [] body.kind = "array" -> [exc |-> "", value |-> Data("list", NoFields)]
      [] OTHER -> [exc |-> "UnicodeDecodeError", value |-> EmptyDict]

\* 'key in data' is defined for a dict and a list, 'data.get' for a dict.
SupportsIn(data) == data.t \in {"dict", "list"}
SupportsGet(data) == data.t = "dict"
contains(data, key) == data.t = "dict" /\ data[key] # None

\* --------------------------------------------------------- unit conversion
\* int(v * 100 / 254): set_rgb_color, set_white_color, set_brightness.
percent(v) == int_div(v * 100, BriMax)
\* A variant that rounds to the nearest percent instead of truncating.
dimmer_level_rounded(bri) == (200 * bri + BriMax) \div (2 * BriMax)

\* int(bri / 2.54): IEEE double division agrees with the exact quotient's
\* truncation for every bri in 0..254.
dimmer_level(bri) == int_div(bri * 100, BriMax)
\* int(hue * 360 / 65535)
hub_hue(hue) == int_div(hue * 360, HueMax)
\* A variant that scales the percent to 0..255.
level_to_bri_of_255(level) == int_div(level * 255, 100)

\* int(level * 2.54)
level_to_bri(level) == int_div(level * BriMax, 100)

Clamp(lo, hi, v) == IF v < lo THEN lo ELSE IF v > hi THEN hi ELSE v
\* A variant of the cool channel that does not clamp the mired value.
cold_white_unclamped(color_temp) ==
    IF color_temp > MiredMax THEN 0 - int_div(255 * (color_temp - MiredMax), MiredMax - MiredMin)
    ELSE int_div(255 * (MiredMax - color_temp), MiredMax - MiredMin)

\* cw = int(255 * (1 - normalized)), ww = int(255 * normalized)
cold_white(color_temp) ==
    int_div(255 * (MiredMax - Clamp(MiredMin, MiredMax, color_temp)), MiredMax - MiredMin)
warm_white(color_temp) ==
    int_div(255 * (Clamp(MiredMin, MiredMax, color_temp) - MiredMin), MiredMax - MiredMin)
\* bri_level = int(brightness * 100 / 254) if brightness else 100
white_bri_level(brightness) ==
    IF brightness # None /\ brightness[1] # 0 THEN percent(brightness[1]) ELSE 100

\* if hue is not None: params["hue"] = int(hue * 360 / 65535), and so on
opt_hub_hue(hue) == IF hue = None THEN None ELSE Some(hub_hue(hue[1]))
opt_percent(v) == IF v = None THEN None ELSE Some(percent(v[1]))

\* ------------------------------------------------------------- hub adapter
\* A pending adapter call is <<method, args...>>; hub_request is the HTTP
\* request the method sends after _ensure_login: <<method, param, ...>>.
hub_request(op) ==
    CASE op[1] = "switch_light" ->
            <<"switch_light", "switchlight", op[2], IF op[3] THEN "On" ELSE "Off">>
      [] op[1] = "switch_scene" ->
            <<"switch_scene", "switchscene", op[2], IF op[3] THEN "On" ELSE "Off">>
      [] op[1] = "set_dimmer" ->
            <<"set_dimmer", "switchlight", op[2], "Set Level", op[3]>>
      [] op[1] = "set_rgb_color" ->
            <<"set_rgb_color", "setcolbrightnessvalue", op[2],
              opt_hub_hue(op[3]), opt_percent(op[4]), opt_percent(op[5])>>
      [] op[1] = "set_white_color" ->
            <<"set_white_color", "setcolbrightnessvalue", op[2],
              cold_white(op[3]), warm_white(op[3]), white_bri_level(op[4])>>
      [] op[1] = "set_brightness" ->
            <<"set_brightness", "switchlight", op[2], "Set Level", percent(op[3])>>
      [] op[1] = "get_device_status" ->
            IF op[3] THEN <<"get_device_status", "getscenes">>
            ELSE <<"get_device_status", "getdevices", op[2]>>

LoginRequest == <<"_ensure_login", "logincheck">>

\* What the hub can do with a command: answer with a status code, or fail
\* in transport (timeout, connection refused).
CommandOutcomes == {<<"status", 200>>, <<"status", 401>>, <<"status", 500>>, <<"exc">>}
\* return response.status_code == 200 / except: return False
command_result(outcome) == outcome = <<"status", 200>>

\* The login exchange: the hub answers status OK, answers anything else, or
\* the exchange raises (transport failure, unparseable answer).
LoginOutcomes == {"OK", "ERR", "exc"}

\* ---------------------------------------------------------- status queries
\* r, g, b -> (h, s) of _rgb_to_hsv as exact fractions h = hn/hd in [0,1)
\* and s = sn/sd; the double arithmetic of the code agrees with them after
\* the int() scaling below.
rgb_to_hsv(r, g, b) ==
    LET max_c == IF r >= g /\ r >= b THEN r ELSE IF g >= b THEN g ELSE b
        min_c == IF r <= g /\ r <= b THEN r ELSE IF g <= b THEN g ELSE b
        d == max_c - min_c
        h6 == IF r = max_c THEN g - b
              ELSE IF g = max_c THEN 2 * d + (b - r)
              ELSE 4 * d + (r - g)
    IN IF max_c = min_c THEN [hn |-> 0, hd |-> 1, sn |-> 0, sd |-> 1]
       ELSE [hn |-> h6 % (6 * d), hd |-> 6 * d, sn |-> d, sd |-> max_c]

DefaultStatus == [on |-> FALSE, bri |-> 0, hue |-> 0, sat |-> 0]

\* A hub device record: Status, Level (None when the key is missing) and
\* Color: None (no key), <<"str", r, g, b>> (JSON text of an object),
\* <<"dict", r, g, b>> (already structured), <<"badjson">> (text that is
\* not JSON) or <<"nondict">> (a payload that decodes to no object).
HubDevice(status, level, color) == [Status |-> status, Level |-> level, Color |-> color]
DeviceRecords ==
    {HubDevice("Off", None, None), HubDevice("On", None, None),
     HubDevice("On", Some(50), None), HubDevice("Off", Some(0), None),
     HubDevice("On", Some(50), <<"str", 255, 0, 0>>),
     HubDevice("On", Some(100), <<"dict", 0, 255, 0>>),
     HubDevice("On", Some(50), <<"dict", 128, 128, 128>>),
     HubDevice("On", Some(50), <<"badjson">>),
     HubDevice("On", Some(50), <<"nondict">>)}
HubScene(idx, status) == [idx |-> idx, Status |-> status]

\* The hub's answer to a status query: <<"exc">> when the exchange or
\* response.json() raises, else <<"json", result, status_code>> with result
\* None (no or empty "result") or <<x>>: x a device record, or the list of
\* scenes.  An answer with an error status may still carry a JSON body.
StatusAnswers(op) ==
    {<<"exc">>, <<"json", None, 200>>, <<"json", None, 500>>} \cup
    IF op[3]
    THEN {<<"json", Some(<<HubScene(op[2] + 1, "On")>>), 200>>,
          <<"json", Some(<<HubScene(op[2] + 1, "On"), HubScene(op[2], "On")>>), 200>>,
          <<"json", Some(<<HubScene(op[2], "Off")>>), 200>>,
          <<"json", Some(<<HubScene(op[2], "On")>>), 500>>}
    ELSE {<<"json", Some(d), 200>> : d \in DeviceRecords}
         \cup {<<"json", Some(HubDevice("On", Some(50), None)), 500>>}

\* The answers taken for the queries of a full listing: a failed exchange,
\* a usable answer, and one with a colour or without the scene.
ListingAnswers(op) ==
    {<<"exc">>} \cup
    IF op[3]
    THEN {<<"json", Some(<<HubScene(op[2] + 1, "On")>>), 200>>,
          <<"json", Some(<<HubScene(op[2], "On")>>), 200>>}
    ELSE {<<"json", Some(HubDevice("On", Some(50), None)), 200>>,
          <<"json", Some(HubDevice("On", Some(50), <<"str", 255, 0, 0>>)), 200>>}

RECURSIVE find_scene(_, _)
find_scene(scenes, idx) ==
    IF scenes = <<>> THEN DefaultStatus
    ELSE IF Head(scenes).idx = idx
         THEN [on |-> Head(scenes).Status = "On", bri |-> BriMax, hue |-> 0, sat |-> 0]
         ELSE find_scene(Tail(scenes), idx)

device_status(device) ==
    LET is_on == device.Status # "Off"
        level0 == IF device.Level = None THEN 0 ELSE device.Level[1]
        level == IF level0 = 0 /\ is_on THEN 100 ELSE level0
        status == [on |-> is_on, bri |-> level_to_bri(level), hue |-> 0, sat |-> 0]
        color == device.Color
    IN IF color = None \/ color = <<"badjson">> THEN status
       ELSE IF color = <<"nondict">> THEN DefaultStatus
       ELSE LET hs == rgb_to_hsv(color[2], color[3], color[4])
            IN [status EXCEPT !.hue = int_div(hs.hn * HueMax, hs.hd),
                              !.sat = int_div(hs.sn * BriMax, hs.sd)]

\* get_device_status(idx, is_scene) given the hub's answer.
get_device_status(op, answer) ==
    IF answer[1] = "exc" \/ answer[2] = None THEN DefaultStatus
    ELSE IF op[3] THEN find_scene(answer[2][1], op[2])
    ELSE device_status(answer[2][1])

\* _get_light_state, after the status query returned.
light_state(device, light_id, status) ==
    LET device_type == device.type
    IN [on |-> status.on, bri |-> status.bri, hue |-> status.hue, sat |-> status.sat,
        ct |-> 500, reachable |-> TRUE,
        colormode |-> IF device_type = "rgb" THEN "hs" ELSE "ct",
        type |-> IF device_type = "rgb" THEN "Extended color light"
                 ELSE IF device_type = "dimmer" THEN "Dimmable light"
                 ELSE "On/Off plug-in unit",
        modelid |-> IF device_type = "rgb" THEN "LCT015"
                    ELSE IF device_type = "dimmer" THEN "LWB010" ELSE "LOM001",
        light_id |-> light_id]

\* ------------------------------------------------------------ HTTP handler
\* Result entries of a PUT and HTTP responses.
Success(light_id, field, value) == <<"success", light_id, field, value>>
LightNotFound == <<"error", "Light not found">>

NoResp == [status |-> 0, json |-> None]
SendJson(payload) == [status |-> 200, json |-> payload]
SendError404 == [status |-> 404, json |-> None]

\* How far a handler gets before it needs the hub: it returns a response,
\* raises, or calls an adapter method (op) and goes on at 'stage' with the
\* entries in 'after' appended to 'result' once the call has returned.
Return(resp, result) ==
    [k |-> "return", resp |-> resp, op |-> None, stage |-> "", after |-> <<>>,
     result |-> result, todo |-> <<>>, lights |-> <<>>]
Raise ==
    [k |-> "raise", resp |-> NoResp, op |-> None, stage |-> "", after |-> <<>>,
     result |-> <<>>, todo |-> <<>>, lights |-> <<>>]
Call(op, stage, after, result) ==
    [k |-> "call", resp |-> NoResp, op |-> op, stage |-> stage, after |-> after,
     result |-> result, todo |-> <<>>, lights |-> <<>>]

ReturnResult(result) == Return(SendJson(<<"list", result>>), result)

OptEntry(light_id, field, v) ==
    IF v = None THEN <<>> ELSE <<Success(light_id, field, v[1])>>

\* A variant that sends scenes the switch command of plain devices.
power_call_ignoring_scene(device, light_id, data) ==
    Call(<<"switch_light", device.idx, data.on[1]>>,
         "power", <<Success(light_id, "on", data.on[1])>>, <<>>)

\* _control_light, 'Handle on/off': the power command and its entry.
power_call(device, light_id, data) ==
    Call(<<IF device.is_scene THEN "switch_scene" ELSE "switch_light",
           device.idx, data.on[1]>>,
         "power", <<Success(light_id, "on", data.on[1])>>, <<>>)

\* A variant that acknowledges bri before ct.
white_call_bri_first(device, light_id, data, result) ==
    Call(<<"set_white_color", device.idx, data.ct[1], data.bri>>, "colour",
         OptEntry(light_id, "bri", data.bri) \o <<Success(light_id, "ct", data.ct[1])>>,
         result)

\* 'White/warm white mode': set_white_color(idx, ct, brightness=bri)
white_call(device, light_id, data, result) ==
    Call(<<"set_white_color", device.idx, data.ct[1], data.bri>>, "colour",
         <<Success(light_id, "ct", data.ct[1])>> \o OptEntry(light_id, "bri", data.bri),
         result)

\* A variant that leaves the brightness out of the colour command.
rgb_call_without_brightness(device, light_id, data, result) ==
    Call(<<"set_rgb_color", device.idx, data.hue, data.sat, None>>, "colour",
         OptEntry(light_id, "hue", data.hue) \o OptEntry(light_id, "sat", data.sat)
             \o OptEntry(light_id, "bri", data.bri),
         result)

\* 'Color mode': set_rgb_color(idx, hue=hue, saturation=sat, brightness=bri)
rgb_call(device, light_id, data, result) ==
    Call(<<"set_rgb_color", device.idx, data.hue, data.sat, data.bri>>, "colour",
         OptEntry(light_id, "hue", data.hue) \o OptEntry(light_id, "sat", data.sat)
             \o OptEntry(light_id, "bri", data.bri),
         result)

\* 'Brightness only': set_brightness(idx, bri)
brightness_call(device, light_id, data, result) ==
    Call(<<"set_brightness", device.idx, data.bri[1]>>, "colour",
         <<Success(light_id, "bri", data.bri[1])>>, result)

\* 'For dimmer lights': set_dimmer(idx, int(data["bri"] / 2.54))
dimmer_call(device, light_id, data, result) ==
    Call(<<"set_dimmer", device.idx, dimmer_level(data.bri[1])>>, "colour",
         <<Success(light_id, "bri", data.bri[1])>>, result)

\* A variant that tests hue and sat before ct.
colour_branch_hue_first(device, light_id, data, result) ==
    IF device.type = "rgb" /\ ~device.is_scene
    THEN IF ~SupportsGet(data) THEN Raise
         ELSE IF data.hue # None \/ data.sat # None
         THEN rgb_call(device, light_id, data, result)
         ELSE IF data.ct # None THEN white_call(device, light_id, data, result)
         ELSE IF data.bri # None THEN brightness_call(device, light_id, data, result)
         ELSE ReturnResult(result)
    ELSE IF device.type = "dimmer" /\ contains(data, "bri") /\ ~device.is_scene
    THEN dimmer_call(device, light_id, data, result)
    ELSE IF device.type \in {"switch", "scene"} /\ contains(data, "bri")
    THEN ReturnResult(result \o <<Success(light_id, "bri", data.bri[1])>>)
    ELSE ReturnResult(result)

\* _control_light from 'For RGB lights' on: the colour/brightness branches.
colour_branch(device, light_id, data, result) ==
    IF device.type = "rgb" /\ ~device.is_scene
    THEN IF ~SupportsGet(data) THEN Raise
         ELSE IF data.ct # None THEN white_call(device, light_id, data, result)
         ELSE IF data.hue # None \/ data.sat # None
         THEN rgb_call(device, light_id, data, result)
         ELSE IF data.bri # None THEN brightness_call(device, light_id, data, result)
         ELSE ReturnResult(result)
    ELSE IF device.type = "dimmer" /\ contains(data, "bri") /\ ~device.is_scene
    THEN dimmer_call(device, light_id, data, result)
    ELSE IF device.type \in {"switch", "scene"} /\ contains(data, "bri")
    THEN ReturnResult(result \o <<Success(light_id, "bri", data.bri[1])>>)
    ELSE ReturnResult(result)

\* _control_light up to its first hub call.
control_light(devs, light_id, data) ==
    IF light_id \notin DOMAIN devs THEN ReturnResult(<<LightNotFound>>)
    ELSE LET device == devs[light_id]
         IN IF ~SupportsIn(data) THEN Raise
            ELSE IF contains(data, "on") THEN power_call(device, light_id, data)
            ELSE colour_branch(device, light_id, data, <<>>)

\* A request path is the sequence of its segments: "/api/x/lights" is
\* <<"api", "x", "lights">>, and path.split("/") is <<"">> \o path.
ApiPrefixed(seg) == seg \in {"api", "apiv2"}
StartsWithApi(path) == path # <<>> /\ ApiPrefixed(path[1])
index(parts, x) == CHOOSE i \in 1..Len(parts) : parts[i] = x /\ \A j \in 1..(i - 1) : parts[j] # x
InSeq(x, parts) == \E i \in 1..Len(parts) : parts[i] = x

\* _handle_api_put
handle_api_put(devs, path, body) ==
    LET loaded == json_loads(body)
        data == loaded.value
        parts == <<"">> \o path
    IN IF loaded.exc \notin {"", "JSONDecodeError"} THEN Raise
       ELSE IF InSeq("lights", parts) /\ InSeq("state", parts)
       THEN IF index(parts, "lights") = Len(parts) THEN Raise
            ELSE control_light(devs, parts[index(parts, "lights") + 1], data)
       ELSE ReturnResult(<<>>)

\* The registry's keys in insertion order.
light_ids(devs) == [i \in 1..Cardinality(DOMAIN devs) |-> str(i)]

\* The status query _get_light_state makes for a light of the registry.
status_op(devs, light_id) ==
    <<"get_device_status", devs[light_id].idx, devs[light_id].is_scene>>

\* _get_all_lights: the query for the first light of 'ids' (the lights
\* still to do), 'lights' holding the states collected so far.
all_lights_from(devs, ids, lights, stage) ==
    [Call(status_op(devs, Head(ids)), stage, <<>>, <<>>)
        EXCEPT !.todo = ids, !.lights = lights]

\* _handle_api_get
handle_api_get(devs, path) ==
    LET parts == <<"">> \o path
        light_id == parts[Len(parts)]
        ends_with_lights == path[Len(path)] = "lights"
    IN IF ends_with_lights \/ (Len(parts) = 3 /\ parts[3] # "")
       THEN IF DOMAIN devs = {}
            THEN Return(SendJson(IF ends_with_lights THEN <<"lights", <<>>>>
                                 ELSE <<"wrapped", <<>>>>), <<>>)
            ELSE all_lights_from(devs, light_ids(devs), <<>>,
                                 IF ends_with_lights THEN "lights" ELSE "wrapped")
       ELSE IF (\E i \in 1..(Len(path) - 1) : path[i] = "lights") /\ light_id \in DOMAIN devs
       THEN [Call(status_op(devs, light_id), "light", <<>>, <<>>) EXCEPT !.todo = <<light_id>>]
       ELSE Return(SendJson(<<"object">>), <<>>)

\* A variant without the 404 answers: every path goes to the API handlers.
do_request_without_404(devs, req) ==
    CASE req.method = "GET" ->
            IF req.path = <<"description.xml">> THEN Return(SendJson(<<"xml">>), <<>>)
            ELSE handle_api_get(devs, req.path)
      [] req.method = "POST" ->
            Return(SendJson(<<"list", <<<<"success", "username", "alexa-hue-emulator">>>>>>), <<>>)
      [] req.method = "PUT" -> handle_api_put(devs, req.path, req.body)

\* do_GET / do_POST / do_PUT
do_request(devs, req) ==
    CASE req.method = "GET" ->
            IF req.path = <<"description.xml">> THEN Return(SendJson(<<"xml">>), <<>>)
            ELSE IF StartsWithApi(req.path) THEN handle_api_get(devs, req.path)
            ELSE Return(SendError404, <<>>)
      [] req.method = "POST" ->
            IF StartsWithApi(req.path)
            THEN Return(SendJson(<<"list", <<<<"success", "username", "alexa-hue-emulator">>>>>>), <<>>)
            ELSE Return(SendError404, <<>>)
      [] req.method = "PUT" ->
            IF StartsWithApi(req.path) THEN handle_api_put(devs, req.path, req.body)
            ELSE Return(SendError404, <<>>)

\* ------------------------------------------------------ discovery responder
\* A datagram's text is a sequence of lines; the lines clients send, and
\* the lower-case forms message.lower() makes of them.
SentLines ==
    {"M-SEARCH * HTTP/1.1", "NOTIFY * HTTP/1.1",
     "ST: ssdp:all", "ST: SSDP:ALL",
     "ST: urn:schemas-upnp-org:device:basic:1", "ST: URN:SCHEMAS-UPNP-ORG:DEVICE:BASIC:1",
     "ST: upnp:rootdevice", "ST: UPNP:ROOTDEVICE",
     "MAN: ssdp:discover"}

\* str.lower, line by line
lower_line(line) ==
    CASE line = "M-SEARCH * HTTP/1.1" -> "m-search * http/1.1"
      [] line = "NOTIFY * HTTP/1.1" -> "notify * http/1.1"
      [] line = "ST: ssdp:all" -> "st: ssdp:all"
      [] line = "ST: SSDP:ALL" -> "st: ssdp:all"
      [] line = "ST: urn:schemas-upnp-org:device:basic:1" -> "st: urn:schemas-upnp-org:device:basic:1"
      [] line = "ST: URN:SCHEMAS-UPNP-ORG:DEVICE:BASIC:1" -> "st: urn:schemas-upnp-org:device:basic:1"
      [] line = "ST: upnp:rootdevice" -> "st: upnp:rootdevice"
      [] line = "ST: UPNP:ROOTDEVICE" -> "st: upnp:rootdevice"
      [] line = "MAN: ssdp:discover" -> "man: ssdp:discover"
      [] OTHER -> line
lower(message) == [i \in 1..Len(message) |-> lower_line(message[i])]

\* The tokens of the search test that occur in a line, as written.
tokens_of_line(line) ==
    CASE line = "M-SEARCH * HTTP/1.1" -> {"M-SEARCH"}
      [] line \in {"ST: ssdp:all", "st: ssdp:all"} -> {"ssdp:all"}
      [] line \in {"ST: urn:schemas-upnp-org:device:basic:1",
                   "st: urn:schemas-upnp-org:device:basic:1"} -> {"device:basic"}
      [] line \in {"ST: upnp:rootdevice", "st: upnp:rootdevice"} -> {"upnp:rootdevice"}
      [] OTHER -> {}

\* token in message
in_message(token, message) ==
    \E i \in 1..Len(message) : token \in tokens_of_line(message[i])

\* A variant that answers every M-SEARCH, whatever it searches for.
is_search_any_target(message) == in_message("M-SEARCH", message)

\* _listen: the condition under which a datagram is answered
is_search(message) ==
    /\ in_message("M-SEARCH", message)
    /\ \/ in_message("ssdp:all", message)
       \/ in_message("device:basic", lower(message))
       \/ in_message("upnp:rootdevice", message)

\* The search targets the test names, and whether a text names one of them
\* in any case.
SearchTargets == {"ssdp:all", "device:basic", "upnp:rootdevice"}
names_target(message) == \E t \in SearchTargets : in_message(t, lower(message))

\* A variant of the loop condition that does not read the run flag.
loop_forever(running) == TRUE

\* _listen: while self.running
loop_condition(running) == running

\* _send_response: the reply handed to sock.sendto(response.encode(), addr)
response(addr) ==
    [to |-> addr,
     location |-> "http://{bridge_ip}:{http_port}/description.xml",
     bridgeid |-> "{BRIDGE_ID}",
     usn |-> "uuid:{BRIDGE_UUID}::urn:schemas-upnp-org:device:basic:1"]

\* The datagrams that reach the socket: a text and its sender.
RECURSIVE Texts(_)
Texts(n) ==
    IF n = 0 THEN {<<>>}
    ELSE LET shorter == Texts(n - 1)
         IN shorter \cup {Append(t, l) : t \in shorter, l \in SentLines}
Senders == {"alexa", "phone"}
Datagrams == {[message |-> m, addr |-> a] : m \in Texts(MaxLines), a \in Senders}

\* The responder main constructs: the object's run flag, main's position
\* around it ("created", "started", "stopped"), the listener thread's
\* position, the datagram it last received with the replies sent for it
\* and whether sendto failed, and the numbers of datagrams received, of
\* those among them that name a search target, and of replies sent.
SSDPResponder ==
    [running |-> FALSE, main |-> "created", pc |-> "none",
     datagram |-> None, replies |-> <<>>, send_error |-> FALSE,
     nReceived |-> 0, nTargeted |-> 0, nReplies |-> 0]

\* ------------------------------------------------------------------- state
VARIABLES
    config,      \* main's config: the device and scene entries of the file
    devices,     \* HueAPIHandler.devices: light id -> descriptor
    username,    \* DomoticzController.username ("" when none is configured)
    logged_in,   \* DomoticzController._logged_in
    conn,        \* per client connection: the handler serving it
    nLoginOK,    \* successful login exchanges so far (capped at LoginCap)
    ssdp         \* main's SSDPResponder, its listener thread and its socket

vars == <<config, devices, username, logged_in, conn, nLoginOK, ssdp>>

Conns == 1..NumConns

NoReq == [method |-> "", path |-> <<>>, body |-> NoBody]
IdleConn ==
    [pc |-> "idle", req |-> NoReq, stage |-> "", op |-> None, after |-> <<>>,
     result |-> <<>>, todo |-> <<>>, lights |-> <<>>, calls |-> <<>>, sent |-> <<>>,
     answers |-> <<>>, ret |-> FALSE, resp |-> NoResp]

\* The handler goes on as the outcome says; 'calls' lists the adapter
\* methods it has called, with their arguments, 'sent' the requests that
\* reached the hub and 'answers' the hub's answers to its status queries.
Proceed(h, out) ==
    [h EXCEPT !.pc = CASE out.k = "return" -> "done"
                       [] out.k = "raise" -> "crashed"
                       [] OTHER -> "ensure",
              !.resp = out.resp, !.op = out.op, !.stage = out.stage,
              !.after = out.after, !.result = out.result, !.todo = out.todo,
              !.lights = out.lights,
              !.calls = IF out.k = "call" THEN Append(@, out.op) ELSE @]

Usernames == {"", "admin"}

InitOver(configs) ==
    /\ config \in configs
    /\ devices = build_devices_dict(config)
    /\ username \in Usernames
    /\ logged_in = FALSE
    /\ conn = [c \in Conns |-> IdleConn]
    /\ nLoginOK = 0
    /\ ssdp = SSDPResponder

\* A client connects and sends a request; it waits in the listen backlog.
Connect(c) ==
    /\ conn[c].pc = "idle"
    /\ conn' = [conn EXCEPT ![c].pc = "waiting"]
    /\ UNCHANGED <<config, devices, username, logged_in, nLoginOK, ssdp>>

\* A variant that serves every connection in a thread of its own.
ServerFreeThreaded == TRUE

\* HTTPServer.serve_forever handles one request at a time: the next one is
\* accepted when the handler of the previous one has returned.
ServerFree == \A d \in Conns : conn[d].pc \in {"idle", "waiting"}

\* The server accepts the connection and runs do_GET / do_POST / do_PUT on
\* the request read from it, up to the handler's first hub call.
Accept(c, requests) ==
    /\ conn[c].pc = "waiting"
    /\ ServerFree
    /\ \E req \in requests :
         conn' = [conn EXCEPT ![c] = Proceed([IdleConn EXCEPT !.req = req],
                                              do_request(devices, req))]
    /\ UNCHANGED <<config, devices, username, logged_in, nLoginOK, ssdp>>

\* A variant that does not look at the _logged_in flag.
NeedLoginEveryCall == username # ""

\* _ensure_login: if self._logged_in or not self.username: return True
NeedLogin == ~(logged_in \/ username = "")

EnsureLogin(c) ==
    /\ conn[c].pc = "ensure"
    /\ conn' = [conn EXCEPT ![c].pc = IF NeedLogin THEN "login_send" ELSE "call"]
    /\ UNCHANGED <<config, devices, username, logged_in, nLoginOK, ssdp>>

\* _ensure_login: self.session.get(url, params=params, timeout=5) is sent
LoginSend(c) ==
    /\ conn[c].pc = "login_send"
    /\ conn' = [conn EXCEPT ![c].pc = "login_wait",
                            ![c].sent = Append(@, LoginRequest)]
    /\ UNCHANGED <<config, devices, username, logged_in, nLoginOK, ssdp>>

\* A variant that sends the login request again when the exchange fails.
LoginReplyRetrying(c) ==
    /\ conn[c].pc = "login_wait"
    /\ \E outcome \in LoginOutcomes :
         /\ logged_in' = IF outcome = "OK" THEN TRUE ELSE logged_in
         /\ nLoginOK' = IF outcome = "OK" /\ nLoginOK < LoginCap
                        THEN nLoginOK + 1 ELSE nLoginOK
         /\ conn' = [conn EXCEPT ![c].pc = IF outcome = "OK" THEN "call"
                                           ELSE "login_send"]
    /\ UNCHANGED <<config, devices, username, ssdp>>

\* _ensure_login: the exchange ends; the method returns to its caller,
\* which ignores the result and sends its own request.
LoginReply(c) ==
    /\ conn[c].pc = "login_wait"
    /\ \E outcome \in LoginOutcomes :
         /\ logged_in' = IF outcome = "OK" THEN TRUE ELSE logged_in
         /\ nLoginOK' = IF outcome = "OK" /\ nLoginOK < LoginCap
                        THEN nLoginOK + 1 ELSE nLoginOK
    /\ conn' = [conn EXCEPT ![c].pc = "call"]
    /\ UNCHANGED <<config, devices, username, ssdp>>

\* The locals light_id and data of the PUT handler serving 'req'.
put_light_id(req) == (<<"">> \o req.path)[index(<<"">> \o req.path, "lights") + 1]
put_data(req) == json_loads(req.body).value

\* A variant in which 'Brightness only' is an 'if' of its own: it runs
\* after the white-temperature branch too.
after_command_brightness_again(devs, h) ==
    LET result == h.result \o h.after
        light_id == put_light_id(h.req)
        data == put_data(h.req)
    IN IF h.stage = "power"
       THEN colour_branch(devs[light_id], light_id, data, result)
       ELSE IF h.op[1] = "set_white_color" /\ data.bri # None
       THEN Call(<<"set_brightness", devs[light_id].idx, data.bri[1]>>, "brightness",
                 <<>>, result)
       ELSE ReturnResult(result)

\* _control_light after the adapter call of 'stage' has returned.
after_command(devs, h) ==
    LET result == h.result \o h.after
        light_id == put_light_id(h.req)
    IN IF h.stage = "power"
       THEN colour_branch(devs[light_id], light_id, put_data(h.req), result)
       ELSE ReturnResult(result)

\* switch_light, switch_scene, set_dimmer, set_rgb_color, set_white_color,
\* set_brightness after _ensure_login: the request is sent, the hub answers
\* or the exchange fails, and the handler goes on to its next hub call or
\* its response.
HubCommand(c) ==
    /\ conn[c].pc = "call"
    /\ conn[c].op[1] # "get_device_status"
    /\ \E outcome \in CommandOutcomes :
         LET h == [conn[c] EXCEPT !.sent = Append(@, hub_request(conn[c].op)),
                                  !.ret = command_result(outcome)]
         IN conn' = [conn EXCEPT ![c] = Proceed(h, after_command(devices, h))]
    /\ UNCHANGED <<config, devices, username, logged_in, nLoginOK, ssdp>>

\* A variant that keeps the first status it gets and uses it for every
\* light of the listing.
after_status_kept(devs, h, status) ==
    LET light_id == Head(h.todo)
        state == light_state(devs[light_id], light_id, status)
    IN IF h.stage = "light" THEN Return(SendJson(<<"object", state>>), <<>>)
       ELSE Return(SendJson(<<h.stage, [i \in 1..Len(h.todo) |->
                        light_state(devs[h.todo[i]], h.todo[i], status)]>>), <<>>)

\* _get_light_state / _get_all_lights after get_device_status has returned.
after_status(devs, h, status) ==
    LET light_id == Head(h.todo)
        state == light_state(devs[light_id], light_id, status)
        lights == Append(h.lights, state)
        rest == Tail(h.todo)
    IN IF h.stage = "light" THEN Return(SendJson(<<"object", state>>), <<>>)
       ELSE IF rest # <<>> THEN all_lights_from(devs, rest, lights, h.stage)
       ELSE Return(SendJson(<<h.stage, lights>>), <<>>)

\* get_device_status after _ensure_login: the query is sent and answered.
StatusQuery(c) ==
    /\ conn[c].pc = "call"
    /\ conn[c].op[1] = "get_device_status"
    /\ \E answer \in (IF conn[c].stage = "light" THEN StatusAnswers(conn[c].op)
                       ELSE ListingAnswers(conn[c].op)) :
         LET status == get_device_status(conn[c].op, answer)
             h == [conn[c] EXCEPT !.sent = Append(@, hub_request(conn[c].op)),
                                  !.answers = Append(@, answer)]
         IN conn' = [conn EXCEPT ![c] = Proceed(h, after_status(devices, h, status))]
    /\ UNCHANGED <<config, devices, username, logged_in, nLoginOK, ssdp>>

\* The handler has returned (or raised: socketserver's handle_error); the
\* connection is shut down.
Close(c) ==
    /\ conn[c].pc \in {"done", "crashed"}
    /\ conn' = [conn EXCEPT ![c] = IdleConn]
    /\ UNCHANGED <<config, devices, username, logged_in, nLoginOK, ssdp>>

\* main: ssdp.start() sets the run flag and starts the listener thread.
SsdpStart ==
    /\ ssdp.main = "created"
    /\ ssdp' = [ssdp EXCEPT !.running = TRUE, !.main = "started", !.pc = "bind"]
    /\ UNCHANGED <<config, devices, username, logged_in, conn, nLoginOK>>

\* _listen: sock.bind; on OSError the thread logs and returns.
Bind ==
    /\ ssdp.pc = "bind"
    /\ \E bound \in BOOLEAN : ssdp' = [ssdp EXCEPT !.pc = IF bound THEN "loop" ELSE "exited"]
    /\ UNCHANGED <<config, devices, username, logged_in, conn, nLoginOK>>

\* _listen: the loop condition is evaluated; the datagram of the previous
\* pass is not used again.
LoopTest ==
    /\ ssdp.pc = "loop"
    /\ ssdp' = [ssdp EXCEPT !.pc = IF loop_condition(ssdp.running) THEN "recv" ELSE "exited",
                            !.datagram = None, !.replies = <<>>, !.send_error = FALSE]
    /\ UNCHANGED <<config, devices, username, logged_in, conn, nLoginOK>>

\* _listen: sock.recvfrom(1024) returns a datagram.
Receive(datagrams) ==
    /\ ssdp.pc = "recv"
    /\ ssdp.nReceived < MaxDatagrams
    /\ \E d \in datagrams :
         ssdp' = [ssdp EXCEPT !.pc = "handle", !.datagram = Some(d), !.replies = <<>>,
                              !.send_error = FALSE, !.nReceived = @ + 1,
                              !.nTargeted = IF names_target(d.message) THEN @ + 1 ELSE @]
    /\ UNCHANGED <<config, devices, username, logged_in, conn, nLoginOK>>

\* _listen: sock.recvfrom raises socket.timeout after the one second set by
\* settimeout, or another exception, which is logged; the loop goes on.
ReceiveFails ==
    /\ ssdp.pc = "recv"
    /\ ssdp' = [ssdp EXCEPT !.pc = "loop"]
    /\ UNCHANGED <<config, devices, username, logged_in, conn, nLoginOK>>

\* _listen: the datagram is decoded and tested, and _send_response answers
\* a search; an exception of sendto is logged by the loop's handler.
Handle ==
    /\ ssdp.pc = "handle"
    /\ LET d == ssdp.datagram[1]
       IN IF is_search(d.message)
          THEN \E sent \in BOOLEAN :
                 ssdp' = IF sent
                         THEN [ssdp EXCEPT !.pc = "loop",
                                           !.replies = Append(@, response(d.addr)),
                                           !.nReplies = @ + 1]
                         ELSE [ssdp EXCEPT !.pc = "loop", !.send_error = TRUE]
          ELSE ssdp' = [ssdp EXCEPT !.pc = "loop"]
    /\ UNCHANGED <<config, devices, username, logged_in, conn, nLoginOK>>

\* main: on KeyboardInterrupt, ssdp.stop() clears the run flag.
SsdpStop ==
    /\ ssdp.main = "started"
    /\ ssdp' = [ssdp EXCEPT !.running = FALSE, !.main = "stopped"]
    /\ UNCHANGED <<config, devices, username, logged_in, conn, nLoginOK>>

\* ---------------------------------------------------------- specifications
\* The requests clients send: a PUT of a light's state with each body, and
\* a GET of one light, for every light of the registry and an id it lacks;
\* the description document, the pairing POST and paths that are no route.
OnValues == {None, Some(TRUE), Some(FALSE)}
HueValues == {None, Some(10000)}
SatValues == {None, Some(200)}
BriValues == {None, Some(0), Some(150)}
CtValues == {None, Some(300)}
Bodies == ObjectBodies(OnValues, HueValues, SatValues, BriValues, CtValues) \cup OtherBodies

Request(method, path, body) == [method |-> method, path |-> path, body |-> body]

\* Requests off the routes clients normally use: a light id that reads
\* "lights", paths under /api that are no route, a path that merely starts
\* with /api, and a POST outside /api.
OddRequests ==
    {Request("GET", <<"api", "x", "lights", "lights">>, NoBody),
     Request("GET", <<"api", "x", "groups">>, NoBody),
     Request("GET", <<"api", "x", "groups", "1">>, NoBody),
     Request("PUT", <<"api", "x", "lights", "1", "name", "state">>,
             Body("object", [NoFields EXCEPT !.on = Some(TRUE)])),
     Request("GET", <<"apiv2">>, NoBody),
     Request("POST", <<"other">>, NoBody),
     Request("PUT", <<"api", "x", "lights", "1">>, NoBody)}
    \cup {Request("PUT", <<"api", "x", "groups", "1", "action">>, b) :
            b \in {NoBody, Body("object", [NoFields EXCEPT !.on = Some(TRUE)]),
                   Body("undecodable", NoFields)}}
LightIds(devs) == DOMAIN devs \cup {"99"}
Requests(devs) ==
    {Request("PUT", <<"api", "x", "lights", id, "state">>, b) :
        id \in LightIds(devs), b \in Bodies}
    \cup {Request("GET", <<"api", "x", "lights", id>>, NoBody) : id \in LightIds(devs)}
    \cup {Request("GET", <<"api", "x", "lights">>, NoBody),
          Request("GET", <<"api", "x">>, NoBody),
          Request("GET", <<"description.xml">>, NoBody),
          Request("GET", <<"other">>, NoBody),
          Request("POST", <<"api">>, NoBody),
          Request("PUT", <<"other">>, NoBody)}
    \cup OddRequests

\* One client at a time, every registry within the bounds, every request.
Init == InitOver(Configs)

Next ==
    \/ Connect(1)
    \/ Accept(1, Requests(devices))
    \/ EnsureLogin(1)
    \/ LoginSend(1)
    \/ LoginReply(1)
    \/ HubCommand(1)
    \/ StatusQuery(1)
    \/ Close(1)

Spec == Init /\ [][Next]_vars

\* Several clients at once against a registry of one rgb light and one
\* scene, with requests that make one or two hub calls.
LoginConfig == [devices |-> <<DeviceEntry(1, Some("rgb"))>>, scenes |-> <<SceneEntry(1)>>]
LoginRequests ==
    {Request("PUT", <<"api", "x", "lights", "1", "state">>,
             Body("object", [NoFields EXCEPT !.on = Some(TRUE)])),
     Request("PUT", <<"api", "x", "lights", "1", "state">>,
             Body("object", [NoFields EXCEPT !.on = Some(TRUE), !.bri = Some(150)])),
     Request("GET", <<"api", "x", "lights", "2">>, NoBody)}

InitLogin == InitOver({LoginConfig})

NextLogin ==
    \E c \in Conns :
        \/ Connect(c)
        \/ Accept(c, LoginRequests)
        \/ EnsureLogin(c)
        \/ LoginSend(c)
        \/ LoginReply(c)
        \/ HubCommand(c)
        \/ StatusQuery(c)
        \/ Close(c)

SpecLogin == InitLogin /\ [][NextLogin]_vars

\* One client, a registry of a dimmer and an rgb light, and every
\* brightness of the Hue scale, alone or beside on or ct.
BriConfig ==
    [devices |-> <<DeviceEntry(1, Some("dimmer")), DeviceEntry(2, Some("rgb"))>>,
     scenes |-> <<>>]
BriBodies ==
    ObjectBodies({None, Some(TRUE)}, {None, Some(10000)}, {None}, {Some(b) : b \in 0..BriMax},
                 {None, Some(300)})
BriRequests ==
    {Request("PUT", <<"api", "x", "lights", id, "state">>, b) :
        id \in {"1", "2"}, b \in BriBodies}
    \cup {Request("GET", <<"api", "x", "lights", "1">>, NoBody)}

InitBri == InitOver({BriConfig})

NextBri ==
    \/ Connect(1)
    \/ Accept(1, BriRequests)
    \/ EnsureLogin(1)
    \/ LoginSend(1)
    \/ LoginReply(1)
    \/ HubCommand(1)
    \/ StatusQuery(1)
    \/ Close(1)

SpecBri == InitBri /\ [][NextBri]_vars

\* One client, a registry of one rgb light, and a PUT of every colour
\* temperature from below the coolest to above the warmest mired.
WhiteConfig == [devices |-> <<DeviceEntry(1, Some("rgb"))>>, scenes |-> <<>>]
Mireds == (0 - MiredMin)..(MiredMin + MiredMax)
WhiteBodies ==
    ObjectBodies({None}, {None}, {None}, {None, Some(150)}, {Some(m) : m \in Mireds})
WhiteRequests ==
    {Request("PUT", <<"api", "x", "lights", "1", "state">>, b) : b \in WhiteBodies}
    \cup {Request("GET", <<"api", "x", "lights", "1">>, NoBody)}

InitWhite == InitOver({WhiteConfig})

NextWhite ==
    \/ Connect(1)
    \/ Accept(1, WhiteRequests)
    \/ EnsureLogin(1)
    \/ LoginSend(1)
    \/ LoginReply(1)
    \/ HubCommand(1)
    \/ StatusQuery(1)
    \/ Close(1)

SpecWhite == InitWhite /\ [][NextWhite]_vars

\* The discovery responder from its construction to its stop, with every
\* datagram within the bounds.
InitSsdp == InitOver({LoginConfig})

NextSsdp ==
    \/ SsdpStart
    \/ Bind
    \/ LoopTest
    \/ Receive(Datagrams)
    \/ ReceiveFails
    \/ Handle
    \/ SsdpStop

SpecSsdp == InitSsdp /\ [][NextSsdp]_vars

\* The same with the searches and announcements of two clients, a listener
\* thread that is scheduled, and a recvfrom that returns or times out.
LiveDatagrams ==
    {[message |-> <<"M-SEARCH * HTTP/1.1", t>>, addr |-> a] :
        t \in {"ST: ssdp:all", "ST: upnp:rootdevice", "MAN: ssdp:discover"}, a \in Senders}
    \cup {[message |-> <<"NOTIFY * HTTP/1.1">>, addr |-> a] : a \in Senders}

NextSsdpLive ==
    \/ SsdpStart
    \/ Bind
    \/ LoopTest
    \/ Receive(LiveDatagrams)
    \/ ReceiveFails
    \/ Handle
    \/ SsdpStop

SpecSsdpLive ==
    /\ InitSsdp /\ [][NextSsdpLive]_vars
    /\ WF_vars(Bind)
    /\ WF_vars(LoopTest)
    /\ WF_vars(Receive(LiveDatagrams) \/ ReceiveFails)
    /\ WF_vars(Handle)

\* -------------------------------------------------------------- properties
Started(h) == h.pc \notin {"idle", "waiting"}
Returned(h) == h.pc \in {"done", "crashed"}

\* h serves PUT /api/<x>/lights/<id>/state
StatePut(h) ==
    /\ Started(h)
    /\ h.req.method = "PUT"
    /\ Len(h.req.path) = 5
    /\ h.req.path[1] = "api" /\ h.req.path[3] = "lights" /\ h.req.path[5] = "state"
PathId(h) == h.req.path[4]
RegisteredPut(h) == StatePut(h) /\ PathId(h) \in DOMAIN devices
Device(h) == devices[PathId(h)]
IsRgbLight(d) == d.type = "rgb" /\ ~d.is_scene
IsDimmer(d) == d.type = "dimmer" /\ ~d.is_scene

\* The requests of 'sent' other than login requests, and how many entries
\* of a log (calls or sent) come from the given adapter methods.
RECURSIVE WithoutLogin(_)
WithoutLogin(sent) ==
    IF sent = <<>> THEN <<>>
    ELSE IF Head(sent)[1] = "_ensure_login" THEN WithoutLogin(Tail(sent))
    ELSE <<Head(sent)>> \o WithoutLogin(Tail(sent))
Count(log, methods) == Cardinality({i \in 1..Len(log) : log[i][1] \in methods})
MethodsOf(log) == {log[i][1] : i \in 1..Len(log)}
ColourMethods == {"set_white_color", "set_rgb_color", "set_brightness", "set_dimmer"}
PowerMethods == {"switch_light", "switch_scene"}

\* C1: a PUT of the state of a light id the registry lacks is answered,
\* whatever the body, with a list of exactly one 'Light not found' error
\* entry, and no request of any kind is sent to the hub while handling it.
C1_UnknownLightPut ==
    \A c \in Conns :
        LET h == conn[c]
        IN StatePut(h) /\ PathId(h) \notin DOMAIN devices
           => /\ h.sent = <<>> /\ h.calls = <<>>
              /\ h.pc = "done"
              /\ h.resp = SendJson(<<"list", <<LightNotFound>>>>)

\* The same for the bodies json.loads accepts or rejects as malformed JSON.
UnknownLightPutDecoded ==
    \A c \in Conns :
        LET h == conn[c]
        IN StatePut(h) /\ PathId(h) \notin DOMAIN devices
           => /\ h.sent = <<>> /\ h.calls = <<>>
              /\ h.req.body.kind # "undecodable"
                 => h.pc = "done" /\ h.resp = SendJson(<<"list", <<LightNotFound>>>>)

\* The colour/brightness command the dispatch rules name for a descriptor
\* and the fields of a body: by capability type first, then by fields.
ExpectedColour(d, body) ==
    IF IsRgbLight(d)
    THEN IF body.ct # None THEN {"set_white_color"}
         ELSE IF body.hue # None \/ body.sat # None THEN {"set_rgb_color"}
         ELSE IF body.bri # None THEN {"set_brightness"}
         ELSE {}
    ELSE IF IsDimmer(d) /\ body.bri # None THEN {"set_dimmer"}
    ELSE {}

\* C2: while a PUT on a registered light is handled at most one
\* colour/brightness command (set_white_color, set_rgb_color,
\* set_brightness, set_dimmer) is issued, and once the handler has answered
\* the command issued is the one the capability type and then the fields
\* present determine.
C2_AtMostOneColourCommand ==
    \A c \in Conns :
        LET h == conn[c]
        IN RegisteredPut(h)
           => /\ Count(h.calls, ColourMethods) <= 1
              /\ Count(h.sent, ColourMethods) <= 1
              /\ h.pc = "done"
                 => /\ MethodsOf(h.calls) \cap ColourMethods = ExpectedColour(Device(h), h.req.body)
                    /\ MethodsOf(h.sent) \cap ColourMethods = ExpectedColour(Device(h), h.req.body)

C2_Witness ==
    \E c \in Conns :
        LET h == conn[c]
        IN /\ RegisteredPut(h) /\ h.pc = "done" /\ IsRgbLight(Device(h))
           /\ h.req.body.ct # None /\ h.req.body.hue # None /\ h.req.body.bri # None
           /\ Count(h.sent, ColourMethods) = 1

\* h serves the PUT of C3: an rgb light, on, hue, sat and bri and no ct.
FullColourPut(h) ==
    /\ RegisteredPut(h) /\ IsRgbLight(Device(h))
    /\ h.req.body.kind = "object"
    /\ h.req.body.on # None /\ h.req.body.hue # None
    /\ h.req.body.sat # None /\ h.req.body.bri # None /\ h.req.body.ct = None

\* C3: a PUT with on, hue, sat and bri (no ct) on an rgb light is answered
\* with four success entries, for on, hue, sat and bri in that order, each
\* echoing the requested value, and makes exactly one power command
\* (switch_light) and one colour command (set_rgb_color with hue, saturation
\* and brightness) and no other command.
C3_FullColourPut ==
    \A c \in Conns :
        LET h == conn[c]
            b == h.req.body
            id == PathId(h)
        IN FullColourPut(h) /\ Returned(h)
           => /\ h.pc = "done"
              /\ h.resp = SendJson(<<"list",
                    <<Success(id, "on", b.on[1]), Success(id, "hue", b.hue[1]),
                      Success(id, "sat", b.sat[1]), Success(id, "bri", b.bri[1])>>>>)
              /\ h.calls = <<<<"switch_light", Device(h).idx, b.on[1]>>,
                             <<"set_rgb_color", Device(h).idx, b.hue, b.sat, b.bri>>>>
              /\ Len(WithoutLogin(h.sent)) = 2
              /\ WithoutLogin(h.sent)[1][1] = "switch_light"
              /\ WithoutLogin(h.sent)[2][1] = "set_rgb_color"
              /\ \A i \in 4..6 : WithoutLogin(h.sent)[2][i] # None

C3_Witness ==
    \E c \in Conns : FullColourPut(conn[c]) /\ conn[c].pc = "done" /\ conn[c].ret

\* The success entries the dispatch rules give for a light id, its
\* descriptor and a body, with no reference to the hub.
OptSuccess(id, field, v) == IF v = None THEN <<>> ELSE <<Success(id, field, v[1])>>
ExpectedEntries(id, d, body) ==
    OptSuccess(id, "on", body.on) \o
    (IF IsRgbLight(d)
     THEN IF body.ct # None
          THEN OptSuccess(id, "ct", body.ct) \o OptSuccess(id, "bri", body.bri)
          ELSE IF body.hue # None \/ body.sat # None
          THEN OptSuccess(id, "hue", body.hue) \o OptSuccess(id, "sat", body.sat)
                   \o OptSuccess(id, "bri", body.bri)
          ELSE OptSuccess(id, "bri", body.bri)
     ELSE IF IsDimmer(d) \/ d.type \in {"switch", "scene"}
     THEN OptSuccess(id, "bri", body.bri)
     ELSE <<>>)

\* C4: the answer to a PUT on a registered light does not depend on the
\* hub: whatever the hub did with the logins and commands, the status is
\* 200 and the entries are those the light, its descriptor and the body
\* determine, the entry for on among them whenever on is present.
C4_PutResponseIgnoresHub ==
    \A c \in Conns :
        LET h == conn[c]
        IN RegisteredPut(h) /\ Returned(h)
           => /\ h.pc = "done"
              /\ h.resp.status = 200
              /\ h.resp.json = <<"list", ExpectedEntries(PathId(h), Device(h), h.req.body)>>

\* The same for the bodies that are JSON objects or malformed JSON.
PutResponseIgnoresHubForObjects ==
    \A c \in Conns :
        LET h == conn[c]
        IN RegisteredPut(h) /\ Returned(h) /\ h.req.body.kind \in {"object", "malformed"}
           => /\ h.pc = "done"
              /\ h.resp.status = 200
              /\ h.resp.json = <<"list", ExpectedEntries(PathId(h), Device(h), h.req.body)>>

\* h serves a PUT with ct on an rgb light.
WhitePut(h) == RegisteredPut(h) /\ IsRgbLight(Device(h)) /\ h.req.body.ct # None

\* The entries of a result other than the one for on.
RECURSIVE WithoutOn(_)
WithoutOn(result) ==
    IF result = <<>> THEN <<>>
    ELSE IF Head(result)[3] = "on" THEN WithoutOn(Tail(result))
    ELSE <<Head(result)>> \o WithoutOn(Tail(result))

\* C5: for an rgb light, whenever ct is present the white-temperature
\* command is issued exactly once, with ct and the bri of the body (absent
\* if the body has none), and neither set_rgb_color nor set_brightness is
\* issued, hue and sat present or not; the colour/brightness entries are
\* the one for ct, followed by one for bri exactly if bri was supplied.
C5_CtTakesPrecedence ==
    \A c \in Conns :
        LET h == conn[c]
            b == h.req.body
            id == PathId(h)
        IN WhitePut(h)
           => /\ Count(h.calls, {"set_rgb_color", "set_brightness", "set_dimmer"}) = 0
              /\ Count(h.sent, {"set_rgb_color", "set_brightness", "set_dimmer"}) = 0
              /\ Count(h.calls, {"set_white_color"}) <= 1
              /\ Returned(h)
                 => /\ h.pc = "done"
                    /\ Count(h.sent, {"set_white_color"}) = 1
                    /\ h.calls[Len(h.calls)] = <<"set_white_color", Device(h).idx, b.ct[1], b.bri>>
                    /\ WithoutOn(h.result) =
                         <<Success(id, "ct", b.ct[1])>> \o OptSuccess(id, "bri", b.bri)
                    /\ h.resp = SendJson(<<"list", h.result>>)

C5_Witness ==
    \E c \in Conns :
        LET h == conn[c]
        IN /\ WhitePut(h) /\ h.pc = "done"
           /\ h.req.body.hue # None /\ h.req.body.sat # None /\ h.req.body.bri = None
           /\ Count(h.sent, {"set_white_color"}) = 1

\* C6: for a descriptor of capability type switch or scene the only hub
\* command a PUT issues is the power command, once if on is present and
\* not at all otherwise, switch_scene if the scene flag is set and
\* switch_light if not; hue, sat, ct and bri cause no command, and a bri
\* that is present is acknowledged with an entry echoing it.
C6_SwitchAndSceneOnlyPower ==
    \A c \in Conns :
        LET h == conn[c]
            d == Device(h)
            power == IF d.is_scene THEN "switch_scene" ELSE "switch_light"
        IN RegisteredPut(h) /\ d.type \in {"switch", "scene"}
           => /\ MethodsOf(h.calls) \subseteq {power}
              /\ MethodsOf(h.sent) \subseteq {power, "_ensure_login"}
              /\ Len(h.calls) <= 1
              /\ Count(h.sent, {power}) <= 1
              /\ Returned(h)
                 => /\ Count(h.sent, {power}) = (IF h.req.body.on # None THEN 1 ELSE 0)
                    /\ h.req.body.on # None
                       => h.calls = <<<<power, d.idx, h.req.body.on[1]>>>>
                    /\ h.req.body.bri # None
                       => /\ h.pc = "done"
                          /\ WithoutOn(h.result) =
                               <<Success(PathId(h), "bri", h.req.body.bri[1])>>
                          /\ h.resp = SendJson(<<"list", h.result>>)

C6_Witness ==
    \E c \in Conns :
        LET h == conn[c]
        IN /\ RegisteredPut(h) /\ h.pc = "done" /\ Device(h).is_scene
           /\ h.req.body.on # None /\ h.req.body.bri # None /\ h.req.body.hue # None
           /\ Count(h.sent, {"switch_scene"}) = 1
           /\ \E id \in DOMAIN devices : devices[id].type = "switch"

\* round(bri * 100 / 254) and the truncation of bri * 100 / 254.
RoundPercent(bri) == (200 * bri + BriMax) \div (2 * BriMax)
TruncPercent(bri) == (100 * bri) \div BriMax

\* h has answered a PUT with bri on a dimmer.
DimmerPut(h) ==
    RegisteredPut(h) /\ IsDimmer(Device(h)) /\ h.req.body.bri # None /\ Returned(h)

\* What C7 says of a handler but for the level: the dimmer command is
\* issued and sent once, with a level in 0..100, and bri is echoed as sent.
DimmerCommandOnce(h, level) ==
    /\ h.pc = "done"
    /\ Count(h.calls, {"set_dimmer"}) = 1
    /\ h.calls[Len(h.calls)] = <<"set_dimmer", Device(h).idx, level>>
    /\ Count(h.sent, {"set_dimmer"}) = 1
    /\ h.sent[Len(h.sent)] = <<"set_dimmer", "switchlight", Device(h).idx, "Set Level", level>>
    /\ level \in 0..100
    /\ WithoutOn(h.result) = <<Success(PathId(h), "bri", h.req.body.bri[1])>>
    /\ h.resp = SendJson(<<"list", h.result>>)

\* C7 as stated: for a dimmer and every bri in 0..254 the dimmer-level
\* command is issued exactly once with level round(bri * 100 / 254), and
\* the entry for bri echoes the Hue-scale bri.
C7_DimmerLevelRounded ==
    \A c \in Conns :
        DimmerPut(conn[c])
        => DimmerCommandOnce(conn[c], RoundPercent(conn[c].req.body.bri[1]))

\* C7 as amended: for a dimmer and every bri in 0..254 the dimmer-level
\* command is issued exactly once with level bri * 100 / 254 truncated to
\* an integer (a value in 0..100), and the entry for bri echoes the
\* Hue-scale bri.
C7_DimmerLevelTruncated ==
    \A c \in Conns :
        DimmerPut(conn[c])
        => DimmerCommandOnce(conn[c], TruncPercent(conn[c].req.body.bri[1]))

C7_Witness ==
    \E c \in Conns :
        /\ DimmerPut(conn[c]) /\ conn[c].pc = "done"
        /\ conn[c].req.body.bri[1] = 253
        /\ conn[c].calls[Len(conn[c].calls)][3] = 99

\* The step sends a login request on connection c.
LoginSentBy(c) ==
    /\ Len(conn'[c].sent) = Len(conn[c].sent) + 1
    /\ conn'[c].sent[Len(conn'[c].sent)] = LoginRequest

\* C8: the session starts not authenticated, becomes authenticated only
\* by a login exchange that succeeds, and stays authenticated from then
\* on; no login request is sent once it is authenticated, and none is ever
\* sent when no username is configured.
C8_SessionMonotonic ==
    /\ ~logged_in
    /\ [][/\ logged_in => logged_in'
          /\ (~logged_in /\ logged_in')
             => /\ nLoginOK' = nLoginOK + 1
                /\ \E c \in Conns : conn[c].pc = "login_wait" /\ conn'[c].pc = "call"
          /\ \A c \in Conns : LoginSentBy(c) => ~logged_in /\ username # ""]_vars

C8_Witness ==
    \E c \in Conns :
        /\ logged_in /\ nLoginOK = 1
        /\ conn[c].pc = "done"
        /\ conn[c].sent # <<>>
        /\ Count(conn[c].sent, {"_ensure_login"}) = 0

\* C9: with credentials configured and several clients making their first
\* requests at once, the check of the authenticated flag and the login
\* exchange of one handler are not interleaved with another handler's: no
\* two login exchanges are in flight at once, and at most one login
\* exchange succeeds in the whole execution.
C9_OneLoginAtATime ==
    /\ Cardinality({c \in Conns : conn[c].pc = "login_wait"}) <= 1
    /\ \A c, d \in Conns :
         c # d /\ conn[c].pc \in {"login_send", "login_wait"}
         => conn[d].pc \in {"idle", "waiting"}
    /\ nLoginOK <= 1

C9_Witness ==
    \E c, d \in Conns :
        /\ c # d
        /\ username # "" /\ ~logged_in
        /\ conn[c].pc = "login_wait"
        /\ conn[d].pc = "waiting"

\* The light-state objects of the answer to a GET.
ReturnedLights(h) ==
    IF h.pc = "done" /\ h.req.method = "GET" /\ h.resp.status = 200
    THEN IF h.resp.json[1] \in {"lights", "wrapped"}
         THEN {h.resp.json[2][i] : i \in 1..Len(h.resp.json[2])}
         ELSE IF h.resp.json[1] = "object" /\ Len(h.resp.json) = 2
         THEN {h.resp.json[2]}
         ELSE {}
    ELSE {}

\* C10: every light-state object a GET returns for a registered device
\* whose capability type is not rgb has hue 0 and sat 0, whatever the hub
\* answered, a colour payload included.
C10_NoColourForNonRgb ==
    \A c \in Conns :
        \A state \in ReturnedLights(conn[c]) :
            devices[state.light_id].type # "rgb" => state.hue = 0 /\ state.sat = 0

\* The same for scenes, and for the answers that carry no colour payload.
NoColourForScenes ==
    \A c \in Conns :
        \A state \in ReturnedLights(conn[c]) :
            devices[state.light_id].is_scene => state.hue = 0 /\ state.sat = 0

\* The datagram the listener has received and finished handling.
Handled == ssdp.datagram # None /\ ssdp.pc # "handle"
HandledMessage == ssdp.datagram[1].message
HandledSender == ssdp.datagram[1].addr

\* C11: a datagram that names none of the search targets (search-all,
\* basic-device, root-device) is never answered, and the replies sent are
\* never more than the received datagrams that name a target.
C11_NoReplyWithoutToken ==
    /\ ssdp.nReplies <= ssdp.nTargeted
    /\ ssdp.datagram # None /\ ~names_target(HandledMessage) => ssdp.replies = <<>>

\* An M-SEARCH that names no target was handled without a reply after an
\* earlier search was answered.
C11_Witness ==
    /\ Handled
    /\ in_message("M-SEARCH", HandledMessage)
    /\ ~names_target(HandledMessage)
    /\ ssdp.nReceived = 2 /\ ssdp.nReplies = 1 /\ ssdp.nTargeted = 1

\* A reply to 'addr' with the description location, the bridge id and the
\* bridge UUID.
IsReplyTo(reply, addr) ==
    /\ reply.to = addr
    /\ reply.location = "http://{bridge_ip}:{http_port}/description.xml"
    /\ reply.bridgeid = "{BRIDGE_ID}"
    /\ reply.usn = "uuid:{BRIDGE_UUID}::urn:schemas-upnp-org:device:basic:1"

\* C12: every received datagram that names the search-all, a basic-device
\* or the root-device target, in any case, is answered with exactly one
\* reply, sent to its sender, that carries the description location, the
\* bridge id and the bridge UUID.
C12_EveryTargetAnswered ==
    Handled /\ names_target(HandledMessage)
        => Len(ssdp.replies) = 1 /\ IsReplyTo(ssdp.replies[1], HandledSender)

\* What the listener does answer once: an M-SEARCH that names ssdp:all or
\* upnp:rootdevice as written, or device:basic in any case, unless sendto
\* fails; nothing else is answered.
SearchAnsweredOnce ==
    Handled =>
        IF /\ in_message("M-SEARCH", HandledMessage)
           /\ \/ in_message("ssdp:all", HandledMessage)
              \/ in_message("upnp:rootdevice", HandledMessage)
              \/ in_message("device:basic", lower(HandledMessage))
           /\ ~ssdp.send_error
        THEN Len(ssdp.replies) = 1 /\ IsReplyTo(ssdp.replies[1], HandledSender)
        ELSE ssdp.replies = <<>>

\* The listener is inside its receive loop.
InLoop(r) == r.pc \in {"loop", "recv", "handle"}

\* C13: the responder goes stopped -> running -> stopped: the run flag is
\* set by start() only and cleared by stop() only, and is never set again;
\* the loop, once entered, is left only when the flag is cleared; once
\* stop() has cleared the flag the loop ends at its next test of it, which
\* a scheduled listener reaches after its next wake-up; and a listener
\* that has left the loop sends no further reply.
C13_StopEndsLoop ==
    /\ [][/\ ssdp'.running # ssdp.running
             => IF ssdp'.running
                THEN ssdp.main = "created" /\ ssdp'.main = "started" /\ ssdp'.pc = "bind"
                ELSE ssdp.main = "started" /\ ssdp'.main = "stopped"
          /\ ssdp.main = "stopped" => ssdp'.main = "stopped" /\ ~ssdp'.running
          /\ InLoop(ssdp) /\ ssdp'.pc = "exited" => ~ssdp.running
          /\ ssdp.pc = "loop" /\ ssdp'.pc # "loop" /\ ~ssdp.running => ssdp'.pc = "exited"
          /\ ssdp.pc = "exited"
             => ssdp'.pc = "exited" /\ ssdp'.nReplies = ssdp.nReplies
                /\ ssdp'.replies = <<>>]_vars
    /\ (ssdp.main = "stopped") ~> (ssdp.pc = "exited")

\* The loop answered a search, stop() was called and the loop has ended.
C13_Witness ==
    /\ ssdp.main = "stopped" /\ ~ssdp.running
    /\ ssdp.pc = "exited"
    /\ ssdp.nReplies >= 1

\* The registry a configuration of m device entries and n scene entries
\* is to yield: ids "1".."m+n", the devices in input order under 1..m with
\* their declared type (switch when none is declared) and no scene flag,
\* the scenes in input order under m+1..m+n with type scene and the flag.
RegistryOf(cfg, devs) ==
    LET m == Len(cfg.devices)
        n == Len(cfg.scenes)
    IN /\ DOMAIN devs = {str(i) : i \in 1..(m + n)}
       /\ Cardinality(DOMAIN devs) = m + n
       /\ \A k \in 1..m :
            /\ devs[str(k)].idx = cfg.devices[k].idx
            /\ ~devs[str(k)].is_scene
            /\ devs[str(k)].type = IF cfg.devices[k].type = None THEN "switch"
                                   ELSE cfg.devices[k].type[1]
       /\ \A k \in 1..n :
            /\ devs[str(m + k)].idx = cfg.scenes[k].idx
            /\ devs[str(m + k)].is_scene
            /\ devs[str(m + k)].type = "scene"

LightGet(h) ==
    /\ Started(h)
    /\ h.req.method = "GET"
    /\ Len(h.req.path) = 4
    /\ h.req.path[1] = "api" /\ h.req.path[3] = "lights"

\* The answer is the single light-state object of light 'id'.
AnswersLight(h, id) ==
    /\ h.pc = "done"
    /\ h.resp.status = 200
    /\ h.resp.json[1] = "object" /\ Len(h.resp.json) = 2
    /\ h.resp.json[2].light_id = id
    /\ h.resp.json[2].type = IF devices[id].type = "rgb" THEN "Extended color light"
                             ELSE IF devices[id].type = "dimmer" THEN "Dimmable light"
                             ELSE "On/Off plug-in unit"

\* The answer is 200 with the JSON text {}: the empty object, or the
\* mapping of all lights when the registry is empty.
EmptyObject(resp) ==
    resp.status = 200 /\ (resp.json = <<"object">> \/ resp.json = <<"lights", <<>>>>)

\* C15: a GET of /api/<x>/lights/<id> for an id the registry lacks is
\* answered 200 with an empty object and no hub request; for a registered
\* id it is answered with that light's single light-state object.
C15_GetOneLight ==
    \A c \in Conns :
        LET h == conn[c]
        IN LightGet(h)
           => IF PathId(h) \in DOMAIN devices
              THEN Returned(h) => AnswersLight(h, PathId(h))
              ELSE /\ h.sent = <<>> /\ h.calls = <<>>
                   /\ h.pc = "done"
                   /\ EmptyObject(h.resp)

\* The same for every id but the text "lights".
GetOneLightExceptLights ==
    \A c \in Conns :
        LET h == conn[c]
        IN LightGet(h) /\ PathId(h) # "lights"
           => IF PathId(h) \in DOMAIN devices
              THEN Returned(h) => AnswersLight(h, PathId(h))
              ELSE /\ h.sent = <<>> /\ h.calls = <<>>
                   /\ h.pc = "done"
                   /\ EmptyObject(h.resp)

\* The light-state objects of the answer to a GET, in the order in which
\* the answer lists them, and whether the answer is the full listing.
IsListing(h) ==
    h.pc = "done" /\ h.req.method = "GET" /\ h.resp.status = 200
    /\ h.resp.json # None /\ h.resp.json[1] \in {"lights", "wrapped"}
ReturnedLightSeq(h) ==
    IF IsListing(h) THEN h.resp.json[2]
    ELSE IF h.pc = "done" /\ h.req.method = "GET" /\ h.resp.status = 200
            /\ h.resp.json # None /\ h.resp.json[1] = "object" /\ Len(h.resp.json) = 2
    THEN <<h.resp.json[2]>>
    ELSE <<>>

\* The query the hub is to get for a light, and the on and bri its answer
\* stands for: off and 0 when the exchange failed, the answer has no
\* result, the scene is not listed or the record cannot be read.
ExpectedQuery(d) ==
    IF d.is_scene THEN <<"get_device_status", "getscenes">>
    ELSE <<"get_device_status", "getdevices", d.idx>>
AnsweredOff == [on |-> FALSE, bri |-> 0]
AnsweredOnBri(d, answer) ==
    IF answer[1] = "exc" \/ answer[2] = None THEN AnsweredOff
    ELSE IF d.is_scene
    THEN LET scenes == answer[2][1]
             hits == {i \in 1..Len(scenes) : scenes[i].idx = d.idx}
         IN IF hits = {} THEN AnsweredOff
            ELSE LET first == CHOOSE i \in hits : \A j \in hits : i <= j
                 IN [on |-> scenes[first].Status = "On", bri |-> 254]
    ELSE LET rec == answer[2][1]
             is_on == rec.Status # "Off"
             level == IF rec.Level = None \/ rec.Level = Some(0)
                      THEN (IF is_on THEN 100 ELSE 0) ELSE rec.Level[1]
         IN IF rec.Color = <<"nondict">> THEN AnsweredOff
            ELSE [on |-> is_on, bri |-> (level * 254) \div 100]

\* C16: light state is never cached.  Every light-state object a GET
\* returns comes from a status query sent while serving that GET: the
\* status queries sent are exactly one per returned light, in the order of
\* the lights (for the full listing: every registered light, in registry
\* order), and on and bri are those of the hub's answer to that query.
C16_StateAlwaysQueried ==
    \A c \in Conns :
        LET h == conn[c]
            lights == ReturnedLightSeq(h)
            queries == WithoutLogin(h.sent)
        IN h.pc = "done" /\ h.req.method = "GET"
           => /\ Len(queries) = Len(lights)
              /\ Len(h.answers) = Len(lights)
              /\ IsListing(h)
                 => /\ Len(lights) = Cardinality(DOMAIN devices)
                    /\ \A i \in 1..Len(lights) : lights[i].light_id = str(i)
              /\ \A i \in 1..Len(lights) :
                    LET d == devices[lights[i].light_id]
                        expected == AnsweredOnBri(d, h.answers[i])
                    IN /\ queries[i] = ExpectedQuery(d)
                       /\ lights[i].on = expected.on
                       /\ lights[i].bri = expected.bri

\* A full listing of two lights was answered from two queries whose
\* answers differ.
C16_Witness ==
    \E c \in Conns :
        LET h == conn[c]
        IN /\ IsListing(h)
           /\ Len(ReturnedLightSeq(h)) = 2
           /\ ReturnedLightSeq(h)[1].on /\ ~ReturnedLightSeq(h)[2].on
           /\ Len(WithoutLogin(h.sent)) = 2

\* The scene of descriptor d is missing from the scene list of an answer.
SceneMissing(d, answer) ==
    d.is_scene /\ answer[1] = "json" /\ answer[2] # None
    /\ \A i \in 1..Len(answer[2][1]) : answer[2][1][i].idx # d.idx

\* The exchange failed or its answer cannot be used: an exception (timeout,
\* connection failure, unparseable body), no or an empty result, or a scene
\* that is not listed.
Unusable(d, answer) ==
    answer[1] = "exc" \/ answer[2] = None \/ SceneMissing(d, answer)

\* The same, or an answer with a status other than 200.
QueryFailed(d, answer) ==
    Unusable(d, answer) \/ (answer[1] = "json" /\ answer[3] # 200)

AllOff(state) == ~state.on /\ state.bri = 0 /\ state.hue = 0 /\ state.sat = 0

\* A GET that queries the hub ends with a 200 answer that holds one
\* complete light-state object per query sent: nothing is raised and no
\* query is repeated.
GetAnswersOncePerQuery(h) ==
    h.req.method = "GET" /\ Returned(h) /\ h.answers # <<>>
        => /\ h.pc = "done" /\ h.resp.status = 200
           /\ Len(ReturnedLightSeq(h)) = Len(h.answers)
           /\ Len(WithoutLogin(h.sent)) = Len(h.answers)
           /\ \A i \in 1..Len(h.answers) :
                ReturnedLightSeq(h)[i].reachable /\ ReturnedLightSeq(h)[i].ct = 500

\* C17: when the status query for a registered light fails in any way
\* (timeout, connection failure, a status other than success, an
\* unparseable or empty answer, a scene missing from the scene list), the
\* light is reported all-off (on false, bri 0, hue 0, sat 0), nothing is
\* raised, the query is not repeated and the GET is answered 200 with a
\* complete light-state object.
C17_FailedQueryGivesDefault ==
    \A c \in Conns :
        LET h == conn[c]
        IN /\ GetAnswersOncePerQuery(h)
           /\ \A i \in 1..Len(ReturnedLightSeq(h)) :
                LET state == ReturnedLightSeq(h)[i]
                IN QueryFailed(devices[state.light_id], h.answers[i]) => AllOff(state)

\* The same for the failures other than an error status whose body is a
\* usable JSON answer.
UnusableAnswerGivesDefault ==
    \A c \in Conns :
        LET h == conn[c]
        IN /\ GetAnswersOncePerQuery(h)
           /\ \A i \in 1..Len(ReturnedLightSeq(h)) :
                LET state == ReturnedLightSeq(h)[i]
                IN Unusable(devices[state.light_id], h.answers[i]) => AllOff(state)

\* The PUT is handled as one with the body {}: answered 200 with an empty
\* list, without a hub call and without raising.
HandledAsEmpty(h) ==
    /\ h.sent = <<>> /\ h.calls = <<>>
    /\ h.pc = "done"
    /\ h.resp = SendJson(<<"list", <<>>>>)

\* C18: a PUT of the state of a registered light whose body is not JSON
\* (malformed text, or bytes that are no JSON text at all) is handled as
\* if the body were the empty object: 200 with an empty list, no hub
\* request, nothing raised.
C18_BadBodyIsEmptyObject ==
    \A c \in Conns :
        LET h == conn[c]
        IN RegisteredPut(h) /\ h.req.body.kind \in {"malformed", "undecodable"}
           => HandledAsEmpty(h)

\* The same for the bodies json.loads rejects with JSONDecodeError.
MalformedBodyIsEmptyObject ==
    \A c \in Conns :
        LET h == conn[c]
        IN RegisteredPut(h) /\ h.req.body.kind = "malformed" => HandledAsEmpty(h)

\* The request is one of the enumerated routes: GET /description.xml,
\* GET /api/<x>, GET /api/<x>/lights, GET /api/<x>/lights/<id>, POST /api/*,
\* PUT /api/<x>/lights/<id>/state.
Enumerated(req) ==
    LET path == req.path
        n == Len(path)
    IN CASE req.method = "GET" ->
               \/ path = <<"description.xml">>
               \/ n = 2 /\ path[1] = "api"
               \/ n \in {3, 4} /\ path[1] = "api" /\ path[3] = "lights"
         [] req.method = "POST" -> n >= 1 /\ path[1] = "api"
         [] req.method = "PUT" ->
               n = 5 /\ path[1] = "api" /\ path[3] = "lights" /\ path[5] = "state"
         [] OTHER -> FALSE

NoHubRequest(h) == h.sent = <<>> /\ h.calls = <<>>

BeginsWithApi(path) == path # <<>> /\ path[1] \in {"api", "apiv2"}

\* The GET falls through the tests of the GET handler: its path neither
\* ends in /lights nor is /api/<x>, nor names a registered light as its
\* last segment after a lights segment.
GetFallsThrough(path) ==
    /\ path[Len(path)] # "lights"
    /\ ~(Len(path) = 2)
    /\ ~(path[Len(path)] \in DOMAIN devices
         /\ \E i \in 1..(Len(path) - 1) : path[i] = "lights")

WhiteCommands(h) ==
    {i \in 1..Len(h.sent) : h.sent[i][1] = "set_white_color"}
Cool(request) == request[4]
Warm(request) == request[5]

\* C20: the white mix sent for a mired value is (255, 0) at 153 and
\* (0, 255) at 500; below 153 it is that of 153 and above 500 that of 500;
\* both channels are in 0..255; and the cool channel does not rise and the
\* warm channel does not fall from a mired to the next.
C20_WhiteMix ==
    \A c \in Conns :
        LET h == conn[c]
        IN \A i \in WhiteCommands(h) :
             LET mired == h.req.body.ct[1]
                 cw == Cool(h.sent[i])
                 ww == Warm(h.sent[i])
             IN /\ cw \in 0..255 /\ ww \in 0..255
                /\ mired <= 153 => cw = 255 /\ ww = 0
                /\ mired >= 500 => cw = 0 /\ ww = 255
                /\ cw >= cold_white(mired + 1) /\ ww <= warm_white(mired + 1)
                /\ cw <= cold_white(mired - 1) /\ ww >= warm_white(mired - 1)
                /\ cw = cold_white(mired) /\ ww = warm_white(mired)

\* A white command for a mired between the two ends was sent with a mix
\* of both channels.
C20_Witness ==
    \E c \in Conns :
        LET h == conn[c]
        IN \E i \in WhiteCommands(h) :
             /\ h.req.body.ct[1] = 300
             /\ Cool(h.sent[i]) = 146 /\ Warm(h.sent[i]) = 108

\* The percent a brightness command carries to the hub, for the commands
\* that convert the bri of the request: set_dimmer, set_brightness and
\* set_rgb_color.
BrightnessCommands(h) ==
    {i \in 1..Len(h.sent) :
        \/ h.sent[i][1] \in {"set_dimmer", "set_brightness"}
        \/ h.sent[i][1] = "set_rgb_color" /\ h.sent[i][6] # None}
SentPercent(request) ==
    IF request[1] = "set_rgb_color" THEN request[6][1] ELSE request[5]

\* The bri the status normalisation reports for a device the hub shows at
\* the given level (off at level 0, on above it).
ReportedBri(level) ==
    device_status(HubDevice(IF level = 0 THEN "Off" ELSE "On", Some(level), None)).bri

Within1(a, b) == a - b \in {-1, 0, 1}

OneWhiteCommand(h, brightness) ==
    /\ Count(h.sent, ColourMethods) = 1
    /\ \E i \in 1..Len(h.sent) :
         /\ h.sent[i][1] = "set_white_color"
         /\ h.sent[i][2] = "setcolbrightnessvalue"
         /\ h.sent[i][3] = Device(h).idx
         /\ h.sent[i][6] = brightness

\* C22: the white-temperature command is one combined colour+brightness
\* request whose brightness is the percent conversion of bri for every
\* bri in 0..254 that the request supplies, and 100 when it supplies none.
C22_WhiteBrightness ==
    \A c \in Conns :
        LET h == conn[c]
        IN WhitePut(h) /\ Returned(h)
           => OneWhiteCommand(h, IF h.req.body.bri = None THEN 100
                                 ELSE TruncPercent(h.req.body.bri[1]))

\* The same with a supplied bri of 0 sent as 100 percent, as a missing one.
WhiteBrightnessZeroAsMissing ==
    \A c \in Conns :
        LET h == conn[c]
        IN WhitePut(h) /\ Returned(h)
           => OneWhiteCommand(h, IF h.req.body.bri \in {None, Some(0)} THEN 100
                                 ELSE TruncPercent(h.req.body.bri[1]))

\* The handler is inside a hub operation (an adapter method), and the
\* operations it has completed.
InOperation(h) == h.pc \in {"ensure", "login_send", "login_wait", "call"}
Completed(h) == IF InOperation(h) THEN Len(h.calls) - 1 ELSE Len(h.calls)
Logins(sent) == {i \in 1..Len(sent) : sent[i] = LoginRequest}

\* Every completed operation has sent its own request once, in call order;
\* a login request is followed by the request of its operation, never by
\* another login, and is the last request only while its answer is awaited.
OneRequestPerOperation(h) ==
    /\ Len(WithoutLogin(h.sent)) = Completed(h)
    /\ \A j \in 1..Completed(h) : WithoutLogin(h.sent)[j] = hub_request(h.calls[j])
    /\ \A i \in Logins(h.sent) :
         IF i = Len(h.sent) THEN h.pc \in {"login_wait", "call"}
         ELSE h.sent[i + 1] # LoginRequest
    /\ h.pc = "login_wait" => Len(h.sent) \in Logins(h.sent)
    /\ Cardinality(Logins(h.sent)) <= Len(h.calls)

\* The login exchange of c ends without success: the session stays
\* unauthenticated and the operation goes on to send its own request.
FailedLoginStep(c) ==
    /\ conn[c].pc = "login_wait"
    /\ conn'[c].pc # "login_wait"
    /\ nLoginOK' = nLoginOK
FailedLoginGoesOn(c) ==
    /\ ~logged_in /\ ~logged_in'
    /\ conn'[c] = [conn[c] EXCEPT !.pc = "call"]

\* The operation of c sends its request: one request is added, the result
\* is the boolean or status the answer gives, and the operation is over.
RequestStep(c) == conn[c].pc = "call" /\ conn'[c] # conn[c]
RequestSentOnce(c) ==
    /\ conn'[c].sent = Append(conn[c].sent, hub_request(conn[c].op))
    /\ conn'[c].ret \in BOOLEAN
    /\ Len(conn'[c].answers) = Len(conn[c].answers)
          + (IF conn[c].op[1] = "get_device_status" THEN 1 ELSE 0)
    /\ \/ ~InOperation(conn'[c])
       \/ conn'[c].pc = "ensure" /\ Len(conn'[c].calls) = Len(conn[c].calls) + 1

\* C23: with credentials configured, a failed login leaves the session
\* unauthenticated, the operation that asked for it still sends its own
\* request exactly once and returns its normal result, and nothing is
\* retried: at most one login request and exactly one command request
\* per hub operation.
C23_FailedLoginNoRetry ==
    /\ [](\A c \in Conns : OneRequestPerOperation(conn[c]))
    /\ [][\A c \in Conns :
            /\ FailedLoginStep(c) => FailedLoginGoesOn(c)
            /\ RequestStep(c) => RequestSentOnce(c)]_vars

\* Both operations of one PUT have asked for a login that failed, and each
\* has sent its command after it.
C23_Witness ==
    \E c \in Conns :
        LET h == conn[c]
        IN /\ username # "" /\ ~logged_in /\ h.pc = "done"
           /\ Len(h.sent) = 4
           /\ h.sent[1] = LoginRequest /\ h.sent[2][1] \in PowerMethods
           /\ h.sent[3] = LoginRequest /\ h.sent[4][1] \in ColourMethods

\* The place of a result entry in the order on, ct or hue, sat, bri.
FieldRank(entry) ==
    CASE entry[3] = "on" -> 1
      [] entry[3] \in {"ct", "hue"} -> 2
      [] entry[3] = "sat" -> 3
      [] entry[3] = "bri" -> 4
      [] OTHER -> 0
InFieldOrder(result) ==
    /\ \A i \in 1..Len(result) : result[i][1] = "success" /\ FieldRank(result[i]) >= 1
    /\ \A i \in 1..Len(result) - 1 : FieldRank(result[i]) < FieldRank(result[i + 1])

\* No request follows a colour or brightness request, and a power request
\* follows nothing but its own login.
PowerBeforeColour(h) ==
    \A i \in 1..Len(h.sent) :
        /\ h.sent[i][1] \in ColourMethods => i = Len(h.sent)
        /\ h.sent[i][1] \in PowerMethods
              => i = 1 \/ (i = 2 /\ h.sent[1] = LoginRequest)

\* A login request is directly followed by the command it belongs to.
LoginBeforeItsCommand(h) ==
    \A i \in Logins(h.sent) :
        IF i = Len(h.sent) THEN h.pc \in {"login_wait", "call"}
        ELSE h.sent[i + 1] = hub_request(h.calls[Len(WithoutLogin(SubSeq(h.sent, 1, i))) + 1])

\* The colour or brightness method is called when the power command, if
\* the request has 'on', has been sent, has returned and is acknowledged.
ColourAfterPowerReturned(h) ==
    \A k \in 1..Len(h.calls) :
        h.calls[k][1] \in ColourMethods /\ h.req.body.on # None
        => /\ k = 2 /\ h.calls[1][1] \in PowerMethods
           /\ \E i \in 1..Len(h.sent) : h.sent[i] = hub_request(h.calls[1])
           /\ Len(h.result) >= 1 /\ h.result[1][3] = "on"

\* C24: within one PUT on a registered light a login precedes the command
\* it belongs to, the power command is sent and has returned before the
\* colour or brightness command is issued, and the result entries come in
\* the order on, then ct or hue, sat, then bri, each field at most once.
C24_PutOrdering ==
    \A c \in Conns :
        LET h == conn[c]
        IN RegisteredPut(h)
           => /\ LoginBeforeItsCommand(h)
              /\ PowerBeforeColour(h)
              /\ ColourAfterPowerReturned(h)
              /\ InFieldOrder(h.result \o h.after)

\* A PUT with on, hue, sat and bri on an rgb light has logged in twice,
\* sent the power and then the colour command and acknowledged four fields.
C24_Witness ==
    \E c \in Conns :
        LET h == conn[c]
        IN /\ RegisteredPut(h) /\ h.pc = "done"
           /\ Len(h.sent) = 4
           /\ h.sent[1] = LoginRequest /\ h.sent[2][1] = "switch_light"
           /\ h.sent[3] = LoginRequest /\ h.sent[4][1] = "set_rgb_color"
           /\ [i \in 1..Len(h.result) |-> h.result[i][3]] = <<"on", "hue", "sat", "bri">>

====
